---- MODULE Spec2Model ----
(***************************************************************************)
(* Model of Cdf.py: the Cdf class (Prob, Value, Percentile, Render), the   *)
(* builders MakeCdf / MakeCdfFromDict / MakeCdfFromList, and the ProbLess  *)
(* sweep.                                                                  *)
(*                                                                         *)
(* Numbers.  Sample values are integers.  Probabilities are the floats     *)
(* c/total; they are modelled as exact fractions in lowest terms, so that  *)
(* two probabilities are equal exactly when the fractions are equal.  For  *)
(* the totals reached here a correctly rounded quotient is equal for equal *)
(* fractions and ordered as the fractions are.                             *)
(***************************************************************************)
EXTENDS Integers, Sequences, FiniteSets, TLC

VARIABLES src, built, cdf, op, arg, ret,
          cdf1, cdf2, data1, data2, pc, i, j, x, y, x2, p, total

vars == <<src, built, cdf, op, arg, ret,
          cdf1, cdf2, data1, data2, pc, i, j, x, y, x2, p, total>>
sweepVars == <<cdf1, cdf2, data1, data2, pc, i, j, x, y, x2, p, total>>

(* ------------------------------ bounds --------------------------------- *)
MaxVal == 3
MaxLen == 3
MaxCount == 2
MaxItems == 2
MaxDen == 6

Values == 1..MaxVal
Counts == 0..MaxCount

(* ----------------------------- fractions ------------------------------- *)
RECURSIVE GCD(_, _)
GCD(a, b) == IF b = 0 THEN a ELSE GCD(b, a % b)

Abs(n) == IF n < 0 THEN -n ELSE n

Frac(n, d) ==
    LET g == GCD(Abs(n), d)
    IN  [num |-> n \div g, den |-> d \div g]

Zero == Frac(0, 1)
One == Frac(1, 1)

FLess(a, b) == a.num * b.den < b.num * a.den
FLeq(a, b) == a.num * b.den <= b.num * a.den
FAdd(a, b) == Frac(a.num * b.den + b.num * a.den, a.den * b.den)
FSub(a, b) == Frac(a.num * b.den - b.num * a.den, a.den * b.den)
FMul(a, b) == Frac(a.num * b.num, a.den * b.den)

(* ------------------------- results of a call --------------------------- *)
Ok(v) == [tag |-> "ok", val |-> <<v>>]
Raise(e) == [tag |-> e, val |-> <<>>]
IsOk(r) == r.tag = "ok"
ValOf(r) == r.val[1]

(* ------------------------ Python list helpers -------------------------- *)
\* a[k] for a 0-based Python index k, negative indices counting from the end
InRange(a, k) == -Len(a) <= k /\ k < Len(a)
At(a, k) == IF k >= 0 THEN a[k + 1] ELSE a[Len(a) + k + 1]

\* bisect.bisect (bisect_right) on a list of integers: lo, hi halving
RECURSIVE BisectInt(_, _, _, _)
BisectInt(a, v, lo, hi) ==
    IF lo < hi
    THEN LET mid == (lo + hi) \div 2
         IN  IF v < a[mid + 1] THEN BisectInt(a, v, lo, mid)
                               ELSE BisectInt(a, v, mid + 1, hi)
    ELSE lo

\* bisect.bisect (bisect_right) on a list of probabilities
RECURSIVE BisectFrac(_, _, _, _)
BisectFrac(a, v, lo, hi) ==
    IF lo < hi
    THEN LET mid == (lo + hi) \div 2
         IN  IF FLess(v, a[mid + 1]) THEN BisectFrac(a, v, lo, mid)
                                     ELSE BisectFrac(a, v, mid + 1, hi)
    ELSE lo

(* ------------------------------ class Cdf ------------------------------ *)
Cdf(xs, ps) == [xs |-> xs, ps |-> ps]

\* Prob without the test of line 33
ProbNoGuard(c, v) ==
    IF Len(c.xs) = 0 THEN Raise("IndexError")
    ELSE LET index == BisectInt(c.xs, v, 0, Len(c.xs))
         IN  IF InRange(c.ps, index - 1) THEN Ok(At(c.ps, index - 1))
             ELSE Raise("IndexError")

Prob(c, v) ==
    IF Len(c.xs) = 0 THEN Raise("IndexError")
    ELSE IF v < c.xs[1] THEN Ok(Zero)
    ELSE LET index == BisectInt(c.xs, v, 0, Len(c.xs))
         IN  IF InRange(c.ps, index - 1) THEN Ok(At(c.ps, index - 1))
             ELSE Raise("IndexError")

\* Value's lookup without the test for an exact hit: always xs[index]
ValueLookupNoTie(c, q) ==
    IF q = Zero
    THEN IF Len(c.xs) = 0 THEN Raise("IndexError") ELSE Ok(c.xs[1])
    ELSE IF q = One
    THEN IF Len(c.xs) = 0 THEN Raise("IndexError") ELSE Ok(c.xs[Len(c.xs)])
    ELSE LET index == BisectFrac(c.ps, q, 0, Len(c.ps))
         IN  IF InRange(c.xs, index) THEN Ok(At(c.xs, index))
             ELSE Raise("IndexError")

\* Value's lookup taking the entry before the insertion point: always xs[index-1]
ValueLookupBefore(c, q) ==
    IF q = Zero
    THEN IF Len(c.xs) = 0 THEN Raise("IndexError") ELSE Ok(c.xs[1])
    ELSE IF q = One
    THEN IF Len(c.xs) = 0 THEN Raise("IndexError") ELSE Ok(c.xs[Len(c.xs)])
    ELSE LET index == BisectFrac(c.ps, q, 0, Len(c.ps))
         IN  IF InRange(c.xs, index - 1) THEN Ok(At(c.xs, index - 1))
             ELSE Raise("IndexError")

\* the lookup of Value, lines 52-58, after the range check
ValueLookup(c, q) ==
    IF q = Zero
    THEN IF Len(c.xs) = 0 THEN Raise("IndexError") ELSE Ok(c.xs[1])
    ELSE IF q = One
    THEN IF Len(c.xs) = 0 THEN Raise("IndexError") ELSE Ok(c.xs[Len(c.xs)])
    ELSE LET index == BisectFrac(c.ps, q, 0, Len(c.ps))
         IN  IF ~InRange(c.ps, index - 1) THEN Raise("IndexError")
             ELSE IF q = At(c.ps, index - 1)
             THEN IF InRange(c.xs, index - 1) THEN Ok(At(c.xs, index - 1))
                  ELSE Raise("IndexError")
             ELSE IF InRange(c.xs, index) THEN Ok(At(c.xs, index))
                  ELSE Raise("IndexError")

\* Value with the range check after the lookup
ValueCheckLate(c, q) ==
    IF ~IsOk(ValueLookup(c, q)) THEN ValueLookup(c, q)
    ELSE IF FLess(q, Zero) \/ FLess(One, q) THEN Raise("ValueError")
    ELSE ValueLookup(c, q)

Value(c, q) ==
    IF FLess(q, Zero) \/ FLess(One, q) THEN Raise("ValueError")
    ELSE ValueLookup(c, q)

Percentile(c, pct) == Value(c, Frac(pct, 100))

\* the loop of Render from index k (0-based) on, appended to the lists so far
RECURSIVE RenderFrom(_, _, _, _)
RenderFrom(c, k, xs, ps) ==
    IF k >= Len(c.ps) THEN Ok([xs |-> xs, ps |-> ps])
    ELSE IF ~InRange(c.xs, k) THEN Raise("IndexError")
    ELSE LET xs1 == Append(xs, At(c.xs, k))
             ps1 == Append(ps, At(c.ps, k))
         IN  IF InRange(c.xs, k + 1)
             THEN RenderFrom(c, k + 1, Append(xs1, At(c.xs, k + 1)),
                                       Append(ps1, At(c.ps, k)))
             ELSE RenderFrom(c, k + 1, xs1, ps1)

\* Render leaving out the last jump: the final point emitted once
RenderOnce(c) ==
    IF Len(c.xs) = 0 THEN Raise("IndexError")
    ELSE LET r == RenderFrom(c, 0, <<c.xs[1]>>, <<Zero>>)
         IN  IF IsOk(r)
             THEN Ok([xs |-> SubSeq(ValOf(r).xs, 1, Len(ValOf(r).xs) - 1),
                      ps |-> SubSeq(ValOf(r).ps, 1, Len(ValOf(r).ps) - 1)])
             ELSE r

Render(c) ==
    IF Len(c.xs) = 0 THEN Raise("IndexError")
    ELSE RenderFrom(c, 0, <<c.xs[1]>>, <<Zero>>)

(* ------------------------------ builders ------------------------------- *)
\* order of (value, count) tuples under Python's tuple comparison
PairLeq(a, b) == a[1] < b[1] \/ (a[1] = b[1] /\ a[2] <= b[2])

RemoveAt(s, k) == [n \in 1..(Len(s) - 1) |-> IF n < k THEN s[n] ELSE s[n + 1]]

\* sorted(items): ascending, equal rows kept
RECURSIVE sorted(_)
sorted(items) ==
    IF items = <<>> THEN <<>>
    ELSE LET m == CHOOSE k \in 1..Len(items) :
                      /\ \A n \in 1..Len(items) : PairLeq(items[k], items[n])
                      /\ \A n \in 1..(k - 1) : items[n] # items[k]
         IN  <<items[m]>> \o sorted(RemoveAt(items, m))

\* the running sums cs of lines 127-134 over the rows in the order given
RECURSIVE RunSums(_, _)
RunSums(rows, runsum) ==
    IF rows = <<>> THEN <<>>
    ELSE <<runsum + rows[1][2]>> \o RunSums(Tail(rows), runsum + rows[1][2])

\* the division by the total done even when there is no row
CdfOfRowsEager(rows) ==
    LET xs == [k \in 1..Len(rows) |-> rows[k][1]]
        cs == RunSums(rows, 0)
        runsum == IF cs = <<>> THEN 0 ELSE cs[Len(cs)]
    IN  IF runsum = 0 THEN Raise("ZeroDivisionError")
        ELSE Ok(Cdf(xs, [k \in 1..Len(cs) |-> Frac(cs[k], runsum)]))

\* lines 127-140 over the rows in the order given
CdfOfRows(rows) ==
    LET xs == [k \in 1..Len(rows) |-> rows[k][1]]
        cs == RunSums(rows, 0)
        runsum == IF cs = <<>> THEN 0 ELSE cs[Len(cs)]
    IN  IF cs # <<>> /\ runsum = 0 THEN Raise("ZeroDivisionError")
        ELSE Ok(Cdf(xs, [k \in 1..Len(cs) |-> Frac(cs[k], runsum)]))

\* MakeCdf without the sort of line 131
MakeCdfUnsorted(items) == CdfOfRows(items)

MakeCdf(items) == CdfOfRows(sorted(items))

\* d.iteritems() in the iteration order ord (a listing of d's keys)
DictItems(d, ord) == [k \in 1..Len(ord) |-> <<ord[k], d[ord[k]]>>]

MakeCdfFromDict(d, ord) == MakeCdf(DictItems(d, ord))

\* hist of lines 167-169: hist[x] = hist.get(x, 0) + 1 for x in seq
RECURSIVE Hist(_)
Hist(seq) ==
    IF seq = <<>> THEN <<>>
    ELSE LET h == Hist(SubSeq(seq, 1, Len(seq) - 1))
             v == seq[Len(seq)]
         IN  [k \in (DOMAIN h) \cup {v} |->
                 IF k = v THEN (IF v \in DOMAIN h THEN h[v] ELSE 0) + 1 ELSE h[k]]

MakeCdfFromList(seq, ord) == MakeCdfFromDict(Hist(seq), ord)

\* the iteration orders a dictionary may enumerate its keys in
Orders(d) ==
    LET K == DOMAIN d
    IN  {f \in [1..Cardinality(K) -> K] : \A a, b \in 1..Cardinality(K) : a # b => f[a] # f[b]}

(* ------------------------------- inputs -------------------------------- *)
SampleSeqs == UNION {[1..n -> Values] : n \in 0..MaxLen}
ItemSeqs == UNION {[1..n -> Values \X Counts] : n \in 0..MaxItems}
Dicts == UNION {[K -> Counts] : K \in SUBSET Values}

\* xs, ps handed to the constructor directly: ascending xs, ps on three levels
ProbLevels == {Frac(2, 10), Frac(5, 10), One}
Ascending(n) == {s \in [1..n -> Values] : \A k \in 1..(n - 1) : s[k] < s[k + 1]}
CtorArgs == UNION {Ascending(n) \X [1..n -> ProbLevels] : n \in 1..MaxLen}

ProbArgs == 0..(MaxVal + 1)
ValueArgs == UNION {{Frac(n, d) : n \in (-1)..(d + 1)} : d \in 1..MaxDen}
PercentileArgs == {-100, -1, 0, 1, 20, 50, 99, 100, 101, 200}

\* the pairs of dictionary d listed by ascending key
RECURSIVE KeysAscending(_)
KeysAscending(K) ==
    IF K = {} THEN <<>>
    ELSE LET m == CHOOSE k \in K : \A n \in K : k <= n
         IN  <<m>> \o KeysAscending(K \ {m})

ByKey(d) == [k \in 1..Cardinality(DOMAIN d) |->
                <<KeysAscending(DOMAIN d)[k], d[KeysAscending(DOMAIN d)[k]]>>]

Source(kind, seq, items) == [kind |-> kind, seq |-> seq, items |-> items]

(* -------------------- the object and its operations -------------------- *)
NoCdf == Cdf(<<>>, <<>>)
NoData == [present |-> FALSE, rows |-> <<>>]
NegInf == [neginf |-> TRUE, v |-> 0]
Unbound == [num |-> 0, den |-> 0]

SweepIdle ==
    /\ cdf1 = NoCdf /\ cdf2 = NoCdf /\ pc = "idle"
    /\ data1 = NoData /\ data2 = NoData
    /\ i = 0 /\ j = 0 /\ x = NegInf /\ y = Unbound
    /\ x2 = 0 /\ p = Zero /\ total = Zero

Init ==
    /\ src = Source("none", <<>>, <<>>)
    /\ built = FALSE
    /\ cdf = NoCdf
    /\ op = "none"
    /\ arg = <<>>
    /\ ret = Raise("none")
    /\ SweepIdle

BuilderOps == {"MakeCdf", "MakeCdfFromDict", "MakeCdfFromList", "Cdf"}

\* a builder returns r: the object exists when r is a value
Built(kind, seq, items, name, r) ==
    /\ src' = Source(kind, seq, items)
    /\ built' = IsOk(r)
    /\ cdf' = IF IsOk(r) THEN ValOf(r) ELSE cdf
    /\ op' = name
    /\ arg' = <<>>
    /\ ret' = r
    /\ UNCHANGED sweepVars

MakeCdfCall ==
    /\ op = "none"
    /\ \E items \in ItemSeqs :
           Built("items", <<>>, items, "MakeCdf", MakeCdf(items))

\* the dictionary enumerates its keys in any order; src keeps its pairs by key
MakeCdfFromDictCall ==
    /\ op = "none"
    /\ \E d \in Dicts : \E ord \in Orders(d) :
           Built("dict", <<>>, ByKey(d), "MakeCdfFromDict", MakeCdfFromDict(d, ord))

MakeCdfFromListCall ==
    /\ op = "none"
    /\ \E seq \in SampleSeqs : \E ord \in Orders(Hist(seq)) :
           Built("list", seq, ByKey(Hist(seq)), "MakeCdfFromList",
                 MakeCdfFromList(seq, ord))

CdfInit ==
    /\ op = "none"
    /\ \E a \in CtorArgs :
           Built("ctor", <<>>, <<>>, "Cdf", Ok(Cdf(a[1], a[2])))

\* a query on the object: it reads xs and ps and writes neither, so every
\* query is asked of the object as the builder returned it
Query(name, a, r) ==
    /\ op' = name
    /\ arg' = a
    /\ ret' = r
    /\ UNCHANGED <<src, built, cdf>>
    /\ UNCHANGED sweepVars

Fresh == built /\ op \in BuilderOps

ProbCall ==
    /\ Fresh
    /\ \E v \in ProbArgs : Query("Prob", v, Prob(cdf, v))

ValueCall ==
    /\ Fresh
    /\ \E q \in ValueArgs : Query("Value", q, Value(cdf, q))

PercentileCall ==
    /\ Fresh
    /\ \E pct \in PercentileArgs : Query("Percentile", pct, Percentile(cdf, pct))

RenderCall ==
    /\ Fresh
    /\ Query("Render", <<>>, Render(cdf))

Next ==
    \/ MakeCdfCall
    \/ MakeCdfFromDictCall
    \/ MakeCdfFromListCall
    \/ CdfInit
    \/ ProbCall
    \/ ValueCall
    \/ PercentileCall
    \/ RenderCall

Spec == Init /\ [][Next]_vars

(* ------------------- properties of the built object ------------------- *)
AllPositive(items) == \A k \in 1..Len(items) : items[k][2] > 0
FromBuilder == src.kind \in {"items", "dict", "list"}

WellFormed(c) ==
    /\ Len(c.ps) = Len(c.xs)
    /\ \A k \in 1..(Len(c.xs) - 1) : c.xs[k] < c.xs[k + 1]
    /\ \A k \in 1..Len(c.ps) : FLeq(Zero, c.ps[k]) /\ FLeq(c.ps[k], One)
    /\ \A k \in 1..(Len(c.ps) - 1) : FLeq(c.ps[k], c.ps[k + 1])
    /\ Len(c.ps) > 0 /\ c.ps[Len(c.ps)] = One

Range(s) == {s[k] : k \in 1..Len(s)}

\* C1: from a non-empty sample list MakeCdfFromList returns a Cdf whose xs
\* are the distinct samples in strictly increasing order, one entry each,
\* and whose ps have the length of xs, lie in [0,1], never decrease and end
\* at 1.
C1_WellFormed ==
    (src.kind = "list" /\ src.seq # <<>>) =>
        /\ built
        /\ WellFormed(cdf)
        /\ Range(cdf.xs) = Range(src.seq)
        /\ Len(cdf.xs) = Cardinality(Range(src.seq))

C1_Witness ==
    /\ op = "MakeCdfFromList"
    /\ src.seq = <<3, 1, 3>>
    /\ src.items = <<<<1, 1>>, <<3, 2>>>>
    /\ built
    /\ cdf = Cdf(<<1, 3>>, <<Frac(1, 3), One>>)

\* the fraction of the samples of seq that are <= v
FractionAtMost(seq, v) ==
    Frac(Cardinality({k \in 1..Len(seq) : seq[k] <= v}), Len(seq))

\* C2: on a Cdf built from a non-empty sample list, Prob(x) is the fraction
\* of samples <= x: 0 below the smallest sample, 1 from the largest on.
C2_ProbIsFraction ==
    (src.kind = "list" /\ src.seq # <<>> /\ op = "Prob") =>
        /\ IsOk(ret)
        /\ ValOf(ret) = FractionAtMost(src.seq, arg)
        /\ (\A k \in 1..Len(src.seq) : arg < src.seq[k]) => ValOf(ret) = Zero
        /\ (\A k \in 1..Len(src.seq) : arg >= src.seq[k]) => ValOf(ret) = One

C2_Witness ==
    /\ op = "Prob"
    /\ src.kind = "list"
    /\ src.seq = <<3, 1, 3>>
    /\ arg = 2
    /\ ret = Ok(Frac(1, 3))

\* the smallest support value of c whose cumulative probability is >= q
SmallestAtLeast(c, q) ==
    LET S == {c.xs[k] : k \in {n \in 1..Len(c.xs) : FLeq(q, c.ps[n])}}
    IN  CHOOSE v \in S : \A w \in S : v <= w

InUnit(q) == FLeq(Zero, q) /\ FLeq(q, One)

\* C3: on a Cdf the builder made from positive counts, Value(p) for
\* 0 < p <= 1 is the smallest support value whose cumulative probability is
\* >= p, and Value(0) is the first support value.
C3_ValueIsQuantile ==
    (/\ FromBuilder /\ src.items # <<>> /\ AllPositive(src.items)
     /\ op = "Value" /\ InUnit(arg)) =>
        /\ IsOk(ret)
        /\ arg = Zero => ValOf(ret) = cdf.xs[1]
        /\ arg # Zero => ValOf(ret) = SmallestAtLeast(cdf, arg)

C3_Witness ==
    /\ op = "Value"
    /\ src.kind = "items"
    /\ src.items = <<<<2, 1>>, <<1, 1>>>>
    /\ arg = Frac(1, 2)
    /\ ret = Ok(1)

\* C4: on a Cdf the builder made from a non-empty input, Prob(Value(p)) >= p
\* for every p in [0,1].
C4_ProbOfValue ==
    (/\ FromBuilder /\ src.items # <<>>
     /\ op = "Value" /\ InUnit(arg)) =>
        /\ IsOk(ret)
        /\ IsOk(Prob(cdf, ValOf(ret)))
        /\ FLeq(arg, ValOf(Prob(cdf, ValOf(ret))))

C4_Witness ==
    /\ op = "Value"
    /\ src.kind = "items"
    /\ src.items = <<<<2, 1>>, <<1, 0>>>>
    /\ arg = Frac(1, 2)
    /\ ret = Ok(2)
    /\ Prob(cdf, 2) = Ok(One)

\* C5 as stated: MakeCdf on an empty sequence of pairs raises the division
\* by zero and returns no object.
C5_EmptyRaises ==
    (op = "MakeCdf" /\ src.items = <<>>) =>
        (ret.tag = "ZeroDivisionError" /\ ~built)

\* C5 amended: MakeCdf on an empty sequence of pairs raises nothing and
\* returns a Cdf with empty xs and ps; the division by zero is raised
\* exactly when there are pairs and their counts sum to zero.
C5_EmptyBuilds ==
    /\ (op = "MakeCdf" /\ src.items = <<>>) =>
           (IsOk(ret) /\ built /\ cdf = NoCdf /\ ValOf(ret) = NoCdf)
    /\ (op = "MakeCdf" /\ src.items # <<>>) =>
           (ret.tag = "ZeroDivisionError" <=>
                \A k \in 1..Len(src.items) : src.items[k][2] = 0)
    /\ (op = "MakeCdf" /\ ret.tag = "ZeroDivisionError") => ~built

C5_Witness ==
    /\ op = "MakeCdf"
    /\ src.items = <<>>
    /\ IsOk(ret)
    /\ built
    /\ cdf = NoCdf

\* the Cdf of the example: values 1, 2, 3 with probabilities 0.2, 0.5, 1.0
RenderExample == Cdf(<<1, 2, 3>>, <<Frac(2, 10), Frac(5, 10), One>>)

\* C6 as stated: Render on the example returns xs = 1,1,2,2,3 and
\* ps = 0, 0.2, 0.2, 0.5, 0.5, the last support point once.
C6_RenderStated ==
    (op = "Render" /\ cdf = RenderExample) =>
        ret = Ok([xs |-> <<1, 1, 2, 2, 3>>,
                  ps |-> <<Zero, Frac(2, 10), Frac(2, 10), Frac(5, 10), Frac(5, 10)>>])

\* C6 amended: Render on the example returns xs = 1,1,2,2,3,3 and
\* ps = 0, 0.2, 0.2, 0.5, 0.5, 1.0; on every Cdf with n >= 1 points the two
\* lists have the same length 2n and the last support point appears as the
\* last two xs, the final one at the last probability.
C6_RenderExact ==
    /\ (op = "Render" /\ cdf = RenderExample) =>
           ret = Ok([xs |-> <<1, 1, 2, 2, 3, 3>>,
                     ps |-> <<Zero, Frac(2, 10), Frac(2, 10), Frac(5, 10),
                              Frac(5, 10), One>>])
    /\ (op = "Render" /\ Len(cdf.xs) = Len(cdf.ps) /\ Len(cdf.xs) >= 1) =>
           /\ IsOk(ret)
           /\ Len(ValOf(ret).xs) = 2 * Len(cdf.xs)
           /\ Len(ValOf(ret).ps) = 2 * Len(cdf.xs)
           /\ ValOf(ret).xs[2 * Len(cdf.xs)] = cdf.xs[Len(cdf.xs)]
           /\ ValOf(ret).xs[2 * Len(cdf.xs) - 1] = cdf.xs[Len(cdf.xs)]
           /\ ValOf(ret).ps[2 * Len(cdf.xs)] = cdf.ps[Len(cdf.ps)]

C6_Witness ==
    /\ op = "Render"
    /\ cdf = RenderExample
    /\ IsOk(ret)
    /\ Len(ValOf(ret).xs) = 6

\* C9: Value(p) raises ValueError for every p < 0 and every p > 1, whatever
\* the Cdf holds (an empty one included, where a lookup would raise
\* IndexError); Percentile(p) does the same when p/100 is outside [0,1];
\* neither call changes xs or ps.
C9_RangeCheckFirst ==
    [][/\ (op' = "Value" /\ ~InUnit(arg')) =>
              (ret' = Raise("ValueError") /\ cdf' = cdf)
       /\ (op' = "Percentile" /\ ~InUnit(Frac(arg', 100))) =>
              (ret' = Raise("ValueError") /\ cdf' = cdf)]_vars

C9_Witness ==
    /\ op = "Value"
    /\ built
    /\ cdf = NoCdf
    /\ arg = Frac(7, 6)
    /\ ret = Raise("ValueError")

(* ------------------------------ ProbLess ------------------------------- *)
\* ProbLess reads each argument through an attribute data, a list of
\* (value, probability) rows.  Cdf.__init__ sets xs, ps and name only: an
\* object as the builders return it has no data, and reading it raises
\* AttributeError.  A caller may attach the rows of xs and ps as data.
Rows(c) == [k \in 1..Len(c.xs) |-> <<c.xs[k], c.ps[k]>>]
DataOf(c) == {NoData, [present |-> TRUE, rows |-> Rows(c)]}

\* the objects MakeCdfFromList returns
ListCdfs ==
    UNION {{ValOf(MakeCdfFromList(seq, ord)) : ord \in Orders(Hist(seq))} : seq \in SampleSeqs}

XLeq(a, b) == a.neginf \/ a.v <= b

\* line 209: the sweep ends when n, the index after the increment, is the last
OuterDone(n, rows) == n = Len(rows) - 1

\* the test of line 201 one row late
InnerLastLate(n, rows) == n = Len(rows)

\* line 201: the row just read is cdf2's last
InnerLast(n, rows) == n = Len(rows) - 1

InitSweep ==
    /\ src = Source("none", <<>>, <<>>)
    /\ built = FALSE
    /\ cdf = NoCdf
    /\ op = "ProbLess"
    /\ arg = <<>>
    /\ ret = Raise("none")
    /\ cdf1 \in ListCdfs
    /\ cdf2 \in ListCdfs
    /\ data1 \in DataOf(cdf1)
    /\ data2 \in DataOf(cdf2)
    /\ pc = "outer"
    /\ i = 0 /\ j = 0 /\ x = NegInf /\ y = Unbound
    /\ x2 = 0 /\ p = Zero /\ total = Zero

SweepRaise(e) ==
    /\ pc' = "raised"
    /\ ret' = Raise(e)
    /\ UNCHANGED <<i, j, x, y, x2, p, total>>

\* lines 194-196: the rows i and i+1 of cdf1 and the mass between them
ReadRows ==
    /\ pc = "outer"
    /\ IF ~data1.present THEN SweepRaise("AttributeError")
       ELSE IF InRange(data1.rows, i) /\ InRange(data1.rows, i + 1)
       THEN /\ x2' = At(data1.rows, i + 1)[1]
            /\ p' = FSub(At(data1.rows, i + 1)[2], At(data1.rows, i)[2])
            /\ pc' = "inner"
            /\ UNCHANGED <<i, j, x, y, total, ret>>
       ELSE SweepRaise("IndexError")
    /\ UNCHANGED <<src, built, cdf, op, arg, cdf1, cdf2, data1, data2>>

\* lines 199-204: one test of the inner while and, when it holds, one body
Advance ==
    /\ pc = "inner"
    /\ IF XLeq(x, x2)
       THEN IF ~data2.present THEN SweepRaise("AttributeError")
            ELSE IF InRange(data2.rows, j)
            THEN /\ x' = [neginf |-> FALSE, v |-> At(data2.rows, j)[1]]
                 /\ y' = At(data2.rows, j)[2]
                 /\ IF InnerLast(j, data2.rows)
                    THEN pc' = "accum" /\ j' = j
                    ELSE pc' = "inner" /\ j' = j + 1
                 /\ UNCHANGED <<i, x2, p, total, ret>>
            ELSE SweepRaise("IndexError")
       ELSE /\ pc' = "accum"
            /\ UNCHANGED <<i, j, x, y, x2, p, total, ret>>
    /\ UNCHANGED <<src, built, cdf, op, arg, cdf1, cdf2, data1, data2>>

\* lines 207-212: add the term, step i, leave the loop at the last index
Accumulate ==
    /\ pc = "accum"
    /\ total' = FAdd(total, FMul(p, FSub(One, y)))
    /\ i' = i + 1
    /\ IF OuterDone(i + 1, data1.rows)
       THEN pc' = "done" /\ ret' = Ok(total')
       ELSE pc' = "outer" /\ ret' = ret
    /\ UNCHANGED <<j, x, y, x2, p>>
    /\ UNCHANGED <<src, built, cdf, op, arg, cdf1, cdf2, data1, data2>>

NextSweep ==
    \/ ReadRows
    \/ Advance
    \/ Accumulate

SpecSweep == InitSweep /\ [][NextSweep]_vars

\* the interpreter runs the call to its end: a step that can be taken is taken
FairSweep == InitSweep /\ [][NextSweep]_vars /\ WF_vars(NextSweep)

(* ---------------------- properties of the sweep ------------------------ *)
TwoEach == Len(cdf1.xs) >= 2 /\ Len(cdf2.xs) >= 2
WithRows == data1.present /\ data2.present

\* the sum over consecutive support points a[k], a[k+1] of cdf a of
\* (pa[k+1] - pa[k]) * (1 - b.Prob(a[k+1]))
RECURSIVE RiemannFrom(_, _, _)
RiemannFrom(a, b, k) ==
    IF k >= Len(a.xs) THEN Zero
    ELSE FAdd(FMul(FSub(a.ps[k + 1], a.ps[k]),
                   FSub(One, ValOf(Prob(b, a.xs[k + 1])))),
              RiemannFrom(a, b, k + 1))

RiemannSum(a, b) == RiemannFrom(a, b, 1)

\* C7: for CDFs of at least 2 support points each, ProbLess returns the sum
\* over consecutive support points of cdfA of the mass between them times
\* (1 - cdfB.Prob(right point)).  Stated for arguments that carry their rows.
C7_SweepIsRiemannSum ==
    (TwoEach /\ WithRows /\ pc \in {"done", "raised"}) =>
        (pc = "done" /\ ret = Ok(RiemannSum(cdf1, cdf2)))

InBounds ==
    /\ pc = "outer" => (0 <= i /\ i + 1 <= Len(cdf1.xs) - 1)
    /\ (pc = "inner" /\ XLeq(x, x2)) => (0 <= j /\ j <= Len(cdf2.xs) - 1)
    /\ pc # "raised"

\* C10: in every run of ProbLess on CDFs of at least 2 support points each,
\* i and j never decrease, every read of cdfA at i and i+1 and of cdfB at j
\* is inside the list, and the sweep ends after exactly len(cdfA)-1 outer
\* iterations, with i at the last index of cdfA.
C10_SweepIndices ==
    /\ [][i' >= i /\ j' >= j]_vars
    /\ [](TwoEach => InBounds)
    /\ []((TwoEach /\ pc = "done") => i = Len(cdf1.xs) - 1)
    /\ (TwoEach ~> (pc = "done"))

\* the same statement for the runs whose arguments carry their rows
SweepIndicesOnRows ==
    /\ [][i' >= i /\ j' >= j]_vars
    /\ []((TwoEach /\ WithRows) => InBounds)
    /\ []((TwoEach /\ WithRows /\ pc = "done") => i = Len(cdf1.xs) - 1)
    /\ ((TwoEach /\ WithRows) ~> (pc = "done"))

====
